---------------------------- MODULE Spec2Model ----------------------------
(***************************************************************************)
(* Model of classy/predict.py: the prediction driver predict_labels, with  *)
(* its batch mode (batch_predictor) and its stream mode (stream_predictor, *)
(* predict_from, append_scores, find_id_col).                              *)
(*                                                                         *)
(* One behaviour is one invocation of predict_labels(args).  The command   *)
(* line (args), the capabilities of the pipeline stored at args.model and  *)
(* everything the collaborators return (the loaded index, the rows of the  *)
(* input sources, the arrays predict / predict_proba / decision_function   *)
(* return) are the environment: args and the capabilities are chosen in    *)
(* Init, the returned values where the call is made.                       *)
(*                                                                         *)
(* stdout is the sequence of pieces written by print: fields, and the      *)
(* separators "\t" and "\n".  calls is the sequence of calls made to the   *)
(* collaborators, in program order.                                        *)
(***************************************************************************)
EXTENDS Integers, Sequences, FiniteSets, TLC

\* Bounds of the model.
MaxFiles == 2       \* at most this many paths given with --index
MaxRows == 2        \* at most this many rows per invocation
MaxLabels == 2      \* at most this many names given with --label
MaxShape == 2       \* predict returns at most this many predictions for a row

VARIABLES
    args,        \* the parsed command line
    caps,        \* what the pipeline stored at args.model can do
    pc,          \* position of the single thread of control
    err,         \* the exception that ended the run, "none" so far
    stdout,      \* pieces printed so far
    calls,       \* calls to collaborators so far: [fn, pipe, ok]
    labelled,    \* applications of make_label so far: [i, out]
    data,        \* batch mode: the loaded index: [n_rows, text_ids]
    predictions, \* batch mode: what predict returned for the matrix
    sources,     \* stream mode: the input sources, in the order consumed
    src,         \* stream mode: index in sources of the current source
    rows,        \* stream mode: rows decoded so far in this invocation
    pipeline,    \* stream mode: predict_from's pipeline object (0: none)
    id_col,      \* stream mode: predict_from's id_col
    here,        \* stream mode: predict_from's here
    no_proba,    \* stream mode: predict_from's no_proba
    text_id,     \* stream mode: loop variable text_id
    prediction,  \* stream mode: what predict returned for the row
    seen         \* stream mode: the rows the encoder yielded so far:
                 \*   [src, row, id]

vars == <<args, caps, pc, err, stdout, calls, labelled, data, predictions,
          sources, src, rows, pipeline, id_col, here, no_proba, text_id,
          prediction, seen>>

-----------------------------------------------------------------------------
\* Values

\* Python's None, and an integer column index, as values that can be compared.
None == [none |-> TRUE]

Col(c) == [col |-> c]

\* A str value and an int value, as make_label can return either.
StrVal(s) == [str |-> s]

IntVal(i) == [int |-> i]

Raised(e) == [raise |-> e]

IsRaised(v) == "raise" \in DOMAIN v

\* str(v), as print applies it to each of its arguments.
Str(v) == IF "str" \in DOMAIN v THEN v.str ELSE ToString(v.int)

\* The label names given with --label: n distinct names.
LabelNames(n) == [j \in 1..n |-> "L" \o ToString(j - 1)]

\* The values a pipeline may predict: class labels are whatever integers the
\* pipeline was fitted with, negative ones included.  One value of each kind
\* there is for a list of 1..MaxLabels names: below -len(L), negative and
\* not below -len(L), an index of L, above every index of L.
Preds == {0 - (MaxLabels + 1), 0 - 1, 0, MaxLabels}

\* Score values, in tenths: 0.1 and 0.9 from predict_proba, -0.5 and 0.5 from
\* decision_function.  A row's scores are a float or a vector of floats.
Float(s) == [float |-> s]

Vec(v) == [vec |-> v]

ProbaRow == Vec(<<1, 9>>)

DecisionRows == {Float(0 - 5), Vec(<<0 - 5, 5>>)}

Abs(x) == IF x < 0 THEN 0 - x ELSE x

\* The stdin source, and a call made with no pipeline.
Stdin == 0

NoPipe == 0

\* A call to a collaborator; ok is FALSE when the pipeline has no such method
\* and the call raised AttributeError.
Call(fn, p) == [fn |-> fn, pipe |-> p, ok |-> TRUE]

Failed(fn, p) == [fn |-> fn, pipe |-> p, ok |-> FALSE]

\* The joblib.load calls made so far; the next load returns a new object.
Loads(cs) == Cardinality({k \in 1..Len(cs) : cs[k].fn = "joblib.load"})

-----------------------------------------------------------------------------
\* Pure functions

\* L[i] on a Python list: negative indices count from the end, and an index
\* outside -len(L)..len(L)-1 raises IndexError.
PyIndex(L, i) ==
    IF 0 <= i /\ i < Len(L) THEN StrVal(L[i + 1])
    ELSE IF i < 0 /\ 0 - Len(L) <= i THEN StrVal(L[Len(L) + i + 1])
    ELSE Raised("IndexError")

\* lambda i: args.label[i] if i < n_labels else i
Resolver(L, i) ==
    IF i < Len(L) THEN PyIndex(L, i) ELSE IntVal(i)

\* make_label: str unless args.label is given.
make_label(a, i) ==
    IF a.label # <<>> THEN Resolver(a.label, i) ELSE StrVal(ToString(i))

\* '{: 0.8f}'.format(s), s in tenths: a space or a minus sign, then 8 decimals.
FormatScore(s) ==
    (IF s < 0 THEN "-" ELSE " ") \o ToString(Abs(s) \div 10) \o "."
        \o ToString(Abs(s) % 10) \o "0000000"

\* sep.join(pieces), as the pieces written.
RECURSIVE Join(_, _)
Join(pieces, sep) ==
    IF Len(pieces) = 0 THEN <<"">>
    ELSE IF Len(pieces) = 1 THEN <<pieces[1]>>
    ELSE <<pieces[1], sep>> \o Join(Tail(pieces), sep)

\* if isinstance(scores, float): scores = (scores,)
AsTuple(sc) == IF "float" \in DOMAIN sc THEN <<sc.float>> ELSE sc.vec

\* '\t'.join('{: 0.8f}'.format(s) for s in scores)
ScoreStr(sc) ==
    Join([j \in 1..Len(AsTuple(sc)) |-> FormatScore(AsTuple(sc)[j])], "\t")

\* find_id_col with id_second tested before no_id.
find_id_col_second_first(a) ==
    IF a.id_second THEN Col(1)
    ELSE IF a.no_id THEN None
    ELSE IF a.id_last THEN Col(0 - 1)
    ELSE Col(0)

\* find_id_col with id_last tested before id_second.
find_id_col_last_first(a) ==
    IF a.no_id THEN None
    ELSE IF a.id_last THEN Col(0 - 1)
    ELSE IF a.id_second THEN Col(1)
    ELSE Col(0)

\* if no_id: None; elif id_second: 1; elif id_last: -1; else: 0
find_id_col(a) ==
    IF a.no_id THEN None
    ELSE IF a.id_second THEN Col(1)
    ELSE IF a.id_last THEN Col(0 - 1)
    ELSE Col(0)

-----------------------------------------------------------------------------
\* Batch mode

\* get_or_make_text_ids: the ids the data carries, else 1..N.
get_or_make_text_ids(index) ==
    IF index.text_ids # <<>> THEN index.text_ids
    ELSE [k \in 1..index.n_rows |-> IntVal(k)]

\* get_scores: the calls made, the scores returned (one per row, decided by
\* what the pipeline can do) and the exception raised.  dec is what
\* decision_function returns for a row.
get_scores(p, index, dec) ==
    IF caps.proba
        THEN [calls |-> <<Call("predict_proba", p)>>,
              scores |-> [k \in 1..index.n_rows |-> ProbaRow], err |-> "none"]
    ELSE IF caps.decision
        THEN [calls |-> <<Failed("predict_proba", p),
                          Call("decision_function", p)>>,
              scores |-> [k \in 1..index.n_rows |-> dec], err |-> "none"]
    ELSE [calls |-> <<Failed("predict_proba", p),
                      Failed("decision_function", p)>>,
          scores |-> <<>>, err |-> "AttributeError"]

\* The outcome of a report: the pieces printed, the labels made, the
\* exception that ended it.
Reported(out, lab, e) == [out |-> out, lab |-> lab, err |-> e]

\* report_labels: one print per pair of zip(text_ids, predictions).
RECURSIVE report_labels(_, _, _)
report_labels(predicted, text_ids, a) ==
    IF Len(text_ids) = 0 \/ Len(predicted) = 0
        THEN Reported(<<>>, <<>>, "none")
    ELSE LET i == Head(predicted)
             v == make_label(a, i)
             rest == report_labels(Tail(predicted), Tail(text_ids), a)
         IN  IF IsRaised(v)
                 THEN Reported(<<>>, <<[i |-> i, out |-> v]>>, v.raise)
             ELSE Reported(<<Str(Head(text_ids)), "\t", Str(v), "\n">>
                               \o rest.out,
                           <<[i |-> i, out |-> v]>> \o rest.lab, rest.err)

\* report_with_scores: one print per triple of zip(text_ids, predictions,
\* scores); the score string is made before the label.
RECURSIVE report_with_scores(_, _, _, _)
report_with_scores(predicted, scores, text_ids, a) ==
    IF Len(text_ids) = 0 \/ Len(predicted) = 0 \/ Len(scores) = 0
        THEN Reported(<<>>, <<>>, "none")
    ELSE LET i == Head(predicted)
             score_str == ScoreStr(Head(scores))
             v == make_label(a, i)
             rest == report_with_scores(Tail(predicted), Tail(scores),
                                        Tail(text_ids), a)
         IN  IF IsRaised(v)
                 THEN Reported(<<>>, <<[i |-> i, out |-> v]>>, v.raise)
             ELSE Reported(<<Str(Head(text_ids)), "\t", Str(v), "\t">>
                               \o score_str \o <<"\n">> \o rest.out,
                           <<[i |-> i, out |-> v]>> \o rest.lab, rest.err)

\* What load_index can return: N rows, with the rows' ids or without.
Indexes ==
    {[n_rows |-> n,
      text_ids |-> IF carried
                       THEN [k \in 1..n |-> StrVal("doc" \o ToString(k))]
                       ELSE <<>>] :
        n \in 0..MaxRows, carried \in BOOLEAN}

\* The usage check without its elif: several index files pass.
batch_usage_missing_only(a) ==
    IF a.index = <<>> THEN "ValueError" ELSE "none"

\* The usage check of batch_predictor: the ValueError raised, or "none".
batch_usage(a) ==
    IF a.index = <<>> THEN "ValueError"
    ELSE IF Len(a.index) > 1 THEN "ValueError"
    ELSE "none"

Halt(e) ==
    /\ err' = e
    /\ pc' = "done"

\* predict_labels: dispatch on args.text.
PredictLabels ==
    /\ pc = "start"
    /\ pc' = IF args.text THEN "stream" ELSE "batch"
    /\ UNCHANGED <<args, caps, err, stdout, calls, labelled, data,
                   predictions, sources, src, rows, pipeline, id_col, here,
                   no_proba, text_id, prediction, seen>>

\* batch_predictor, from the usage check to the last line printed.
BatchPredictor ==
    /\ pc = "batch"
    /\ UNCHANGED <<args, caps, sources, src, rows, pipeline, id_col, here,
                   no_proba, text_id, prediction, seen>>
    /\ IF batch_usage(args) # "none"
           THEN /\ Halt(batch_usage(args))
                /\ UNCHANGED <<stdout, calls, labelled, data, predictions>>
       ELSE \E index \in Indexes, dec \in DecisionRows :
            \E predicted \in [1..index.n_rows -> Preds] :
              LET p == Loads(calls) + 1
                  loaded == <<Call("load_index", NoPipe),
                              Call("joblib.load", p), Call("predict", p)>>
                  got == IF args.scores THEN get_scores(p, index, dec)
                         ELSE [calls |-> <<>>, scores |-> <<>>,
                               err |-> "none"]
                  text_ids == get_or_make_text_ids(index)
                  rep == IF args.scores
                             THEN report_with_scores(predicted, got.scores,
                                                     text_ids, args)
                         ELSE report_labels(predicted, text_ids, args)
              IN  /\ data' = index
                  /\ predictions' = predicted
                  /\ calls' = calls \o loaded \o got.calls
                  /\ IF got.err # "none"
                         THEN /\ Halt(got.err)
                              /\ UNCHANGED <<stdout, labelled>>
                     ELSE /\ Halt(rep.err)
                          /\ stdout' = stdout \o rep.out
                          /\ labelled' = labelled \o rep.lab

-----------------------------------------------------------------------------
\* Stream mode

\* The usage check of stream_predictor: the ValueError raised, or "none".
stream_usage(a) ==
    IF ~a.vocabulary THEN "ValueError" ELSE "none"

\* The sources stream_predictor consumes, in order: sys.stdin if no path is
\* given with --index, else each path.
input_sources(a) ==
    IF a.index = <<>> THEN <<Stdin>> ELSE a.index

\* The identifier FeatureEncoder yields for row k of source s: the content
\* of column id_col of the row, or the row's number if there is no such column.
encoded_id(c, s, k) ==
    IF c = None THEN IntVal(k)
    ELSE StrVal("s" \o ToString(s) \o "r" \o ToString(k)
                    \o "c" \o ToString(c.col))

\* The label always ended by a newline.
line_end_newline(a) == "\n"

\* here = '\t' if args.scores else '\n'
line_end(a) == IF a.scores THEN "\t" ELSE "\n"

\* What predict can return for one row: an array of 0..MaxShape predictions.
\* predict_from reads its shape[0] and its element 0 only, so the arrays
\* whose later elements repeat the first stand for all.
PredictResults ==
    {[k \in 1..n |-> i] : n \in 0..MaxShape, i \in Preds}

\* The assertion letting through any result that has a first prediction.
at_least_one_prediction(predicted) == Len(predicted) >= 1

\* assert prediction.shape[0] == 1
single_prediction(predicted) == Len(predicted) = 1

\* no_proba shared with append_scores: its assignment reaches the caller.
callee_flag(callers, callees) == callees

\* append_scores gets no_proba by value: what it assigns to its parameter
\* does not reach the caller's variable.
caller_flag(callers, callees) == callers

\* stream_predictor up to its loop over the sources.
StreamPredictor ==
    /\ pc = "stream"
    /\ UNCHANGED <<args, caps, stdout, labelled, data, predictions, rows,
                   pipeline, id_col, here, no_proba, text_id, prediction,
                   seen>>
    /\ IF stream_usage(args) # "none"
           THEN /\ Halt(stream_usage(args))
                /\ UNCHANGED <<calls, sources, src>>
       ELSE /\ calls' = calls \o <<Call("load_vocabulary", NoPipe),
                                   Call("fix_column_offset", NoPipe),
                                   Call("fix_column_offset", NoPipe)>>
            /\ sources' = input_sources(args)
            /\ src' = 1
            /\ pc' = "source"
            /\ UNCHANGED err

\* predict_from up to its loop over the rows: for the next source, make the
\* row generator and the encoder, load the pipeline, set the locals.
PredictFrom ==
    /\ pc = "source"
    /\ src <= Len(sources)
    /\ calls' = calls \o <<Call("row_generator", NoPipe),
                           Call("transform_input", NoPipe),
                           Call("FeatureEncoder", NoPipe),
                           Call("joblib.load", Loads(calls) + 1)>>
    /\ id_col' = find_id_col(args)
    /\ pipeline' = Loads(calls) + 1
    /\ here' = line_end(args)
    /\ no_proba' = FALSE
    /\ pc' = "rows"
    /\ UNCHANGED <<args, caps, err, stdout, labelled, data, predictions,
                   sources, src, rows, text_id, prediction, seen>>

\* The loop over the sources is over: stream_predictor returns.
StreamDone ==
    /\ pc = "source"
    /\ src > Len(sources)
    /\ pc' = "done"
    /\ UNCHANGED <<args, caps, err, stdout, calls, labelled, data,
                   predictions, sources, src, rows, pipeline, id_col, here,
                   no_proba, text_id, prediction, seen>>

\* for text_id, features in stream: the encoder yields the next row.
NextRow ==
    /\ pc = "rows"
    /\ rows < MaxRows
    /\ rows' = rows + 1
    /\ text_id' = encoded_id(id_col, sources[src], rows + 1)
    /\ seen' = Append(seen, [src |-> src, row |-> rows + 1,
                             id |-> encoded_id(id_col, sources[src],
                                               rows + 1)])
    /\ calls' = Append(calls, Call("next_row", NoPipe))
    /\ pc' = "predict"
    /\ UNCHANGED <<args, caps, err, stdout, labelled, data, predictions,
                   sources, src, pipeline, id_col, here, no_proba,
                   prediction>>

\* for text_id, features in stream: the source is exhausted, predict_from
\* returns to the loop of stream_predictor.
EndOfSource ==
    /\ pc = "rows"
    /\ src' = src + 1
    /\ pc' = "source"
    /\ UNCHANGED <<args, caps, err, stdout, calls, labelled, data,
                   predictions, sources, rows, pipeline, id_col, here,
                   no_proba, text_id, prediction, seen>>

\* The body of the loop up to the print: predict, the assertion on the
\* shape, make_label, print.
PredictRow ==
    /\ pc = "predict"
    /\ calls' = Append(calls, Call("predict", pipeline))
    /\ UNCHANGED <<args, caps, data, predictions, sources, src, rows,
                   pipeline, id_col, here, no_proba, text_id, seen>>
    /\ \E predicted \in PredictResults :
         /\ prediction' = predicted
         /\ IF ~single_prediction(predicted)
                THEN /\ Halt("AssertionError")
                     /\ UNCHANGED <<stdout, labelled>>
            ELSE LET v == make_label(args, predicted[1])
                 IN  /\ labelled' = Append(labelled,
                                           [i |-> predicted[1], out |-> v])
                     /\ IF IsRaised(v)
                            THEN /\ Halt(v.raise)
                                 /\ UNCHANGED stdout
                        ELSE /\ stdout' = stdout \o <<Str(text_id), "\t",
                                                      Str(v), here>>
                             /\ pc' = IF args.scores THEN "scores"
                                      ELSE "rows"
                             /\ UNCHANGED err

\* if args.scores: append_scores(pipeline, features, no_proba)
AppendScores ==
    /\ pc = "scores"
    /\ UNCHANGED <<args, caps, labelled, data, predictions, sources, src,
                   rows, pipeline, id_col, here, text_id, prediction, seen>>
    /\ IF no_proba
           THEN IF caps.decision
                    THEN \E dec \in DecisionRows :
                           /\ calls' = Append(calls, Call("decision_function",
                                                          pipeline))
                           /\ stdout' = stdout \o ScoreStr(dec) \o <<"\n">>
                           /\ no_proba' = caller_flag(no_proba, no_proba)
                           /\ pc' = "rows"
                           /\ UNCHANGED err
                ELSE /\ calls' = Append(calls, Failed("decision_function",
                                                      pipeline))
                     /\ Halt("AttributeError")
                     /\ UNCHANGED <<stdout, no_proba>>
       ELSE IF caps.proba
           THEN /\ calls' = Append(calls, Call("predict_proba", pipeline))
                /\ stdout' = stdout \o ScoreStr(ProbaRow) \o <<"\n">>
                /\ no_proba' = caller_flag(no_proba, no_proba)
                /\ pc' = "rows"
                /\ UNCHANGED err
       ELSE IF caps.decision
           THEN \E dec \in DecisionRows :
                  /\ calls' = calls \o <<Failed("predict_proba", pipeline),
                                         Call("decision_function", pipeline)>>
                  /\ stdout' = stdout \o ScoreStr(dec) \o <<"\n">>
                  /\ no_proba' = caller_flag(no_proba, TRUE)
                  /\ pc' = "rows"
                  /\ UNCHANGED err
       ELSE /\ calls' = calls \o <<Failed("predict_proba", pipeline),
                                   Failed("decision_function", pipeline)>>
            /\ Halt("AttributeError")
            /\ UNCHANGED <<stdout, no_proba>>

-----------------------------------------------------------------------------
\* The invocations

\* The command lines: any mode, any number of --index paths, with or without
\* --scores, --vocabulary and each of the three identifier flags, and the
\* --label lists of the lengths in labels.
Args(labels) ==
    {[text |-> t, index |-> [k \in 1..f |-> k], scores |-> s,
      label |-> LabelNames(l), vocabulary |-> v,
      no_id |-> n, id_second |-> i2, id_last |-> il] :
        t \in BOOLEAN, f \in 0..MaxFiles, s \in BOOLEAN, l \in labels,
        v \in BOOLEAN, n \in BOOLEAN, i2 \in BOOLEAN, il \in BOOLEAN}

Caps == [proba : BOOLEAN, decision : BOOLEAN]

\* The state predict_labels starts in.
Start ==
    /\ pc = "start"
    /\ err = "none"
    /\ stdout = <<>>
    /\ calls = <<>>
    /\ labelled = <<>>
    /\ data = [n_rows |-> 0, text_ids |-> <<>>]
    /\ predictions = <<>>
    /\ sources = <<>>
    /\ src = 0
    /\ rows = 0
    /\ pipeline = NoPipe
    /\ id_col = None
    /\ here = "\n"
    /\ no_proba = FALSE
    /\ text_id = IntVal(0)
    /\ prediction = <<>>
    /\ seen = <<>>

\* Every command line that leaves the identifier column at its default, with
\* every pipeline.
Init ==
    /\ args \in {a \in Args(0..MaxLabels) :
                   ~a.no_id /\ ~a.id_second /\ ~a.id_last}
    /\ caps \in Caps
    /\ Start

\* Every combination of the identifier flags, without --label, with a
\* pipeline that has predict_proba and decision_function.
InitIdCol ==
    /\ args \in Args({0})
    /\ caps = [proba |-> TRUE, decision |-> TRUE]
    /\ Start

Next ==
    \/ PredictLabels
    \/ BatchPredictor
    \/ StreamPredictor
    \/ PredictFrom
    \/ StreamDone
    \/ NextRow
    \/ EndOfSource
    \/ PredictRow
    \/ AppendScores

Spec == Init /\ [][Next]_vars

SpecIdCol == InitIdCol /\ [][Next]_vars

-----------------------------------------------------------------------------
\* Reading the state

\* stdout cut at its "\n" pieces: the complete lines (each without its
\* "\n"), and the pieces after the last "\n".
RECURSIVE SplitLines(_, _, _)
SplitLines(out, lines, cur) ==
    IF out = <<>> THEN [lines |-> lines, rest |-> cur]
    ELSE IF Head(out) = "\n" THEN SplitLines(Tail(out), Append(lines, cur), <<>>)
    ELSE SplitLines(Tail(out), lines, Append(cur, Head(out)))

Printed == SplitLines(stdout, <<>>, <<>>)

\* The positions in calls of the calls of fn.
CallsOf(fn) == {k \in 1..Len(calls) : calls[k].fn = fn}

PipelineCalls ==
    CallsOf("predict") \cup CallsOf("predict_proba")
        \cup CallsOf("decision_function")

\* batch_predictor has passed its usage check and has ended.
BatchRan == ~args.text /\ pc = "done" /\ Len(args.index) = 1

\* predict_from has been entered.
InPredictFrom == args.text /\ pipeline # NoPipe

\* The pipeline can give scores whenever they are asked for.
CanScore == args.scores => (caps.proba \/ caps.decision)

-----------------------------------------------------------------------------
\* C1: with a label list L given, the label resolver is total over the
\* integers: it never raises, gives L[i] for an index i of L and the raw i
\* for i >= len(L).
C1_ResolverTotal ==
    args.label # <<>> =>
        \A k \in 1..Len(labelled) :
            LET i == labelled[k].i
                out == labelled[k].out
            IN  /\ ~IsRaised(out)
                /\ i >= Len(args.label) => out = IntVal(i)
                /\ (0 <= i /\ i < Len(args.label))
                       => out = StrVal(args.label[i + 1])

\* C2: batch mode with one index file of N rows prints exactly N lines, in
\* row order; line k starts with the k-th carried identifier, or with k when
\* the data carries none, and carries the label of the k-th prediction.
C2_BatchOneLinePerRow ==
    (BatchRan /\ CanScore) =>
        /\ Printed.rest = <<>>
        /\ Len(Printed.lines) = data.n_rows
        /\ Len(labelled) = data.n_rows
        /\ \A k \in 1..data.n_rows :
               /\ Printed.lines[k][1] =
                      (IF data.text_ids # <<>> THEN data.text_ids[k].str
                       ELSE ToString(k))
               /\ labelled[k].i = predictions[k]
               /\ Printed.lines[k][3] = Str(labelled[k].out)

\* C3: a usage error is a ValueError raised before any collaborator is called
\* and before anything is printed, and it ends the run; batch mode raises it
\* exactly when the number of index files is not one, stream mode exactly
\* when no vocabulary is given.
C3_UsageErrorFirst ==
    /\ err = "ValueError" =>
           /\ pc = "done"
           /\ calls = <<>>
           /\ stdout = <<>>
           /\ seen = <<>>
           /\ IF args.text THEN ~args.vocabulary ELSE Len(args.index) # 1
    /\ (pc \notin {"start", "batch"} /\ ~args.text /\ Len(args.index) # 1)
           => err = "ValueError"
    /\ (pc \notin {"start", "stream"} /\ args.text /\ ~args.vocabulary)
           => err = "ValueError"

C3_Witness ==
    /\ err = "ValueError"
    /\ ~args.text
    /\ Len(args.index) > 1

\* The part of C4 about which method gives the scores in batch mode: predict
\* is called once; without --scores no score method is called; with
\* --scores the scores are predict_proba's if the pipeline has it, and
\* else decision_function's, called after the failed predict_proba.
BatchScoreSource ==
    BatchRan =>
        /\ Cardinality(CallsOf("predict")) = 1
        /\ ~args.scores =>
               CallsOf("predict_proba") \cup CallsOf("decision_function") = {}
        /\ (args.scores /\ caps.proba) =>
               /\ \E k \in CallsOf("predict_proba") : calls[k].ok
               /\ CallsOf("decision_function") = {}
        /\ (args.scores /\ ~caps.proba /\ caps.decision) =>
               /\ \E k \in CallsOf("decision_function") :
                      /\ calls[k].ok
                      /\ calls[k - 1] = Failed("predict_proba", calls[k].pipe)
               /\ err # "AttributeError"

\* C4: in batch mode the scores are predict_proba's when the pipeline has
\* it; with decision_function only, that is called and the run completes
\* without error with one scored line per row; without --scores neither is
\* called; predict is called exactly once.
C4_BatchScores ==
    /\ BatchScoreSource
    /\ (BatchRan /\ args.scores /\ ~caps.proba /\ caps.decision) =>
           /\ err = "none"
           /\ Printed.rest = <<>>
           /\ Len(Printed.lines) = data.n_rows
           /\ \A k \in 1..data.n_rows : Len(Printed.lines[k]) >= 5

\* The identifier column the flags select, by the precedence
\* no_id > id_second > id_last > default.
C5_ByPrecedence ==
    /\ args.no_id => id_col = None
    /\ (~args.no_id /\ args.id_second) => id_col = Col(1)
    /\ (~args.no_id /\ ~args.id_second /\ args.id_last) => id_col = Col(0 - 1)
    /\ (~args.no_id /\ ~args.id_second /\ ~args.id_last) => id_col = Col(0)

\* C5: in stream mode, for every combination of the three flags, the
\* identifier column is none if no_id, else 1 if id_second, else the last
\* (-1) if id_last, else 0.
C5_IdColPrecedence ==
    InPredictFrom => C5_ByPrecedence

C5_Witness ==
    /\ InPredictFrom
    /\ args.no_id /\ args.id_second /\ args.id_last
    /\ id_col = None
    /\ rows > 0

\* C6 as stated: with --id_second the identifier column is 1 whatever
\* --id_last and --no_id are.
C6_IdSecondAlways ==
    (InPredictFrom /\ args.id_second) => id_col = Col(1)

\* C6 as amended: with --id_second and without --no_id the identifier column
\* is 1 whatever --id_last is; with --no_id there is no identifier column.
C6_IdSecondUnlessNoId ==
    (InPredictFrom /\ args.id_second) =>
        id_col = (IF args.no_id THEN None ELSE Col(1))

C6_Witness ==
    /\ InPredictFrom
    /\ args.id_second /\ args.id_last /\ ~args.no_id
    /\ id_col = Col(1)
    /\ rows > 0

\* C7: the pipeline is loaded exactly once per invocation, in either mode and
\* for any number of --index files, and every prediction and score of the
\* invocation comes from that one object.
C7_LoadedOnce ==
    /\ Loads(calls) <= 1
    /\ (pc = "done" /\ err = "none") => Loads(calls) = 1
    /\ \A k \in PipelineCalls : calls[k].pipe = 1

\* C8: in stream mode a predict result that is not exactly one prediction
\* ends the run with an AssertionError: nothing is printed for the row, no
\* later row or source is processed, and the lines of the earlier rows stay.
C8_AssertionFatal ==
    /\ err = "AssertionError" =>
           /\ args.text
           /\ pc = "done"
           /\ Len(prediction) # 1
           /\ calls[Len(calls)] = Call("predict", pipeline)
           /\ Len(seen) = rows
           /\ Cardinality(CallsOf("predict")) = rows
           /\ Len(labelled) = rows - 1
           /\ LET out == Printed
              IN  /\ out.rest = <<>>
                  /\ Len(out.lines) = rows - 1
                  /\ \A k \in 1..(rows - 1) :
                         out.lines[k][1] = Str(seen[k].id)
    /\ (args.text /\ CallsOf("predict") # {} /\ Len(prediction) # 1)
           => err = "AssertionError"

C8_Witness ==
    /\ err = "AssertionError"
    /\ Len(prediction) = 2
    /\ rows = 2
    /\ Len(Printed.lines) = 1

\* The k-th line of stream mode, from the k-th row and its label: id, tab,
\* label, and with --scores a tab and at least one score.
StreamLine(line, k) ==
    LET start == <<Str(seen[k].id), "\t", Str(labelled[k].out)>>
    IN  IF args.scores
            THEN /\ Len(line) >= 5
                 /\ SubSeq(line, 1, 4) = start \o <<"\t">>
                 /\ \A j \in 5..Len(line) :
                        (line[j] = "\t") <=> (j % 2 = 0)
        ELSE line = start

\* C9: stream mode consumes its sources in the order given (stdin iff no
\* file is given) and prints the complete line of each row before predict
\* is called for the next row; the line is id, tab, label, newline, or with
\* --scores id, tab, label, tab, the tab-joined scores, newline.
C9_Incremental ==
    args.text =>
        /\ pc \notin {"start", "stream"} /\ err # "ValueError" =>
               sources = (IF Len(args.index) = 0 THEN <<Stdin>>
                          ELSE args.index)
        /\ \A j, k \in 1..Len(seen) :
               j < k => (seen[j].src <= seen[k].src /\ seen[j].row < seen[k].row)
        /\ \A k \in 1..Len(seen) : seen[k].src <= src
        /\ pc = "predict" =>
               /\ Printed.rest = <<>>
               /\ Len(Printed.lines) = rows - 1
               /\ Cardinality(CallsOf("predict")) = rows - 1
        /\ pc \in {"rows", "source"} =>
               /\ Printed.rest = <<>>
               /\ Len(Printed.lines) = rows
        /\ LET lines == Printed.lines
           IN  \A k \in 1..Len(lines) : StreamLine(lines[k], k)

C9_Witness ==
    /\ args.text /\ args.scores
    /\ pc = "predict"
    /\ rows = 2
    /\ Len(sources) = 2
    /\ seen[1].src = 1
    /\ seen[2].src = 2
    /\ Len(Printed.lines) = 1

\* C10: in stream mode with --scores and a pipeline without predict_proba,
\* every row attempts predict_proba first and calls decision_function only
\* after it failed; predict_from's no_proba stays False; with
\* decision_function every row gets its scores from it, without error.
C10_FallbackNotRemembered ==
    /\ no_proba = FALSE
    /\ (args.text /\ ~caps.proba) =>
           /\ \A k \in CallsOf("decision_function") :
                  /\ k > 1
                  /\ calls[k - 1] = Failed("predict_proba", calls[k].pipe)
           /\ Cardinality(CallsOf("predict_proba"))
                  = Cardinality(CallsOf("decision_function"))
           /\ (pc \in {"rows", "source"} /\ args.scores) =>
                  Cardinality(CallsOf("predict_proba")) = rows
    /\ (args.text /\ args.scores /\ ~caps.proba /\ caps.decision) =>
           /\ err # "AttributeError"
           /\ \A k \in CallsOf("decision_function") : calls[k].ok
           /\ LET lines == Printed.lines
              IN  /\ Cardinality(CallsOf("decision_function")) = Len(lines)
                  /\ \A k \in 1..Len(lines) :
                         \E dec \in DecisionRows :
                             SubSeq(lines[k], 5, Len(lines[k]))
                                 = ScoreStr(dec)

C10_Witness ==
    /\ args.text /\ args.scores /\ ~caps.proba /\ caps.decision
    /\ pc = "rows"
    /\ rows = 2
    /\ Cardinality(CallsOf("decision_function")) = 2
    /\ Cardinality(CallsOf("predict_proba")) = 2

=============================================================================
